---- MODULE Spec2Model ----
(***************************************************************************)
(* Model of the scenario scripts under src/testsprite_tests.  Every script *)
(* is one coroutine run_test(): it acquires a driver, a browser and a      *)
(* context, opens a page, navigates, runs a straight line of steps         *)
(* (locate-and-act, scroll, navigate), checks its terminal visibility      *)
(* assertion(s) and releases the handles in a finally block.  The browser  *)
(* is the environment: every awaited call either returns or raises, and    *)
(* pages may open or close while the coroutine is suspended in an await.   *)
(***************************************************************************)
EXTENDS Integers, Sequences, FiniteSets, TLC

\* Bounds of the model.
MaxSteps == 2
MaxAsserts == 2
MaxPages == 2
MaxFrames == 2
NRuns == 2
MaxMatches == 2
MaxRenders == 1

VARIABLES
  scenario,   \* the script being run: its steps and its terminal assertions
  state,      \* "Idle", "Running", "Passed", "Failed"
  pc,         \* the statement run_test is at
  idx,        \* ordinal of the current step, assertion or startup frame
  waiting,    \* TRUE while run_test is suspended in the await of a call
  pw,         \* local pw:      "None", "open", "closed"
  browser,    \* local browser: "None", "open", "closed"
  context,    \* local context: "None", "open", "closed"
  page,       \* local page: the page created at session start (0 = unbound)
  frame,      \* local frame: the page last read from context.pages[-1]
  pages,      \* context.pages: the open top-level pages, oldest first
  created,    \* number of pages opened so far in the context
  nframes,    \* len(page.frames) as read by the startup loop
  inflight,   \* calls issued to the browser and not yet completed
  opLog,      \* history: every call issued, with its target and outcome
  app,        \* the target application: the actions it received, in order
  raised,     \* the exception propagating out of run_test, with its chain
  runs,       \* scripts run side by side, each its own process: per run its
              \* position, its locals pw, browser, context and its result
  spawned,    \* drivers, browser processes and contexts started so far
  alive,      \* those of them that have not been released
  made,       \* history: which run started which of them
  touched,    \* history: the browser and context each call of a run went to
  dom,        \* the document a locator is resolved in: per frame the number
              \* of elements it matches, and how often they were re-attached
  loc,        \* a run of locate-and-act steps against that document
  twin,       \* two runs of one script that are given the same outcomes
  fed         \* the outcomes given to both so far, one per call

scriptvars == <<scenario, state, pc, idx, waiting, pw, browser, context, page,
                frame, pages, created, nframes, inflight, opLog, app, raised>>

runvars == <<runs, spawned, alive, made, touched>>

stepvars == <<dom, loc>>

twinvars == <<twin, fed>>

vars == <<scriptvars, runvars, stepvars, twinvars>>

----------------------------------------------------------------------------
\* The scripts.

StepKinds == {"fill", "click", "scroll", "goto"}

SeqsUpTo(S, n) == UNION {[1..k -> S] : k \in 1..n}

\* A script wraps its single assertion in try/except AssertionError and
\* re-raises with its own message, or lists one or more bare assertions.
Scenarios ==
  {sc \in [steps : SeqsUpTo(StepKinds, MaxSteps),
           nAsserts : 1..MaxAsserts,
           wrapped : BOOLEAN] : sc.wrapped => sc.nAsserts = 1}

----------------------------------------------------------------------------
\* Program points that are awaited calls.

SetupPoints == {"start", "launch", "new_context", "new_page", "goto",
                "load_main", "load_frame"}

StepPoints == {"settle", "act", "evaluate", "wheel", "nav"}

SleepPoints == {"sleep3", "sleep5"}

\* Variant of TeardownOrder releasing in the order of acquisition.
TeardownOrderForward == <<"stop_pw", "close_browser", "close_context">>

\* The finally block, in source order.
TeardownOrder == <<"close_context", "close_browser", "stop_pw">>

TeardownPoints == {TeardownOrder[k] : k \in 1..Len(TeardownOrder)}

CallPoints == SetupPoints \cup StepPoints \cup {"expect"} \cup TeardownPoints

PhaseOf(p) ==
  IF p \in SetupPoints THEN "setup"
  ELSE IF p \in StepPoints \cup {"resolve", "sleep3"} THEN "step"
  ELSE IF p \in {"resolve_assert", "expect", "sleep5"} THEN "assert"
  ELSE "teardown"

\* Variants of Caught with one more call wrapped in try/except-pass.
CaughtAct(p) == p \in {"load_main", "load_frame", "act"}

CaughtGoto(p) == p \in {"load_main", "load_frame", "goto"}

CaughtLaunch(p) == p \in {"load_main", "load_frame", "launch"}

CaughtNewPage(p) == p \in {"load_main", "load_frame", "new_page"}

CaughtExpect(p) == p \in {"load_main", "load_frame", "expect"}

\* Variant of Caught without the handlers around the load-state waits.
CaughtNone(p) == FALSE

\* The only handlers in the try body: except async_api.Error: pass
\* around the two load-state waits.
Caught(p) == p \in {"load_main", "load_frame"}

\* Variant of Handler that issues a failed action of a step again.
HandlerRetry(p) ==
  IF p \in TeardownPoints THEN "exit"
  ELSE IF p = "act" THEN "act" ELSE TeardownOrder[1]

\* Variant of Handler that navigates back to the start page after a failure.
HandlerUndo(p) == IF p \in TeardownPoints THEN "exit" ELSE "nav"

\* Where control goes when a call raises and nothing catches it: into the
\* finally block from the try body, out of run_test from the finally block.
Handler(p) == IF p \in TeardownPoints THEN "exit" ELSE TeardownOrder[1]

TeardownIndex(p) == CHOOSE k \in 1..Len(TeardownOrder) : TeardownOrder[k] = p

AfterTeardown(p) ==
  IF TeardownIndex(p) < Len(TeardownOrder)
  THEN TeardownOrder[TeardownIndex(p) + 1]
  ELSE "exit"

\* The local variable the finally block tests before a release.
Handle(p) ==
  CASE p = "close_context" -> context
    [] p = "close_browser" -> browser
    [] p = "stop_pw" -> pw

\* First statement of step i, or of the assertions after the last step.
EntryPc(i) ==
  IF i > Len(scenario.steps) THEN "resolve_assert"
  ELSE CASE scenario.steps[i] \in {"fill", "click"} -> "resolve"
         [] scenario.steps[i] = "scroll" -> "evaluate"
         [] scenario.steps[i] = "goto" -> "nav"

Last(s) == s[Len(s)]

InSeq(x, s) == \E i \in 1..Len(s) : s[i] = x

RemoveAt(s, i) == [j \in 1..(Len(s) - 1) |-> IF j < i THEN s[j] ELSE s[j + 1]]

\* The name of the call made at program point p.
OpName(p) == IF p = "act" THEN scenario.steps[idx] ELSE p

\* Variant of Target that reads context.pages[-1] again for the action.
TargetLatest(p) ==
  IF p \in {"goto", "load_main", "load_frame", "settle", "evaluate",
            "wheel", "nav"} THEN page
  ELSE IF p = "act" THEN (IF pages = <<>> THEN 0 ELSE Last(pages))
  ELSE IF p = "expect" THEN frame
  ELSE 0

\* Variant of Target with the settle delay on the page read for the step.
TargetSettleOnFrame(p) ==
  IF p \in {"goto", "load_main", "load_frame", "evaluate", "wheel", "nav"}
  THEN page
  ELSE IF p \in {"settle", "act", "expect"} THEN frame
  ELSE 0

\* The page object the call at p is made on (0: not a page call).
Target(p) ==
  IF p \in {"goto", "load_main", "load_frame", "settle", "evaluate",
            "wheel", "nav"} THEN page
  ELSE IF p \in {"act", "expect"} THEN frame
  ELSE 0

\* History only: the page that was last in context.pages when the step that
\* contains the call at p began.
TopAt(p) ==
  IF p \in {"settle", "act", "expect"} THEN frame
  ELSE IF p \in {"evaluate", "nav"}
       THEN (IF pages = <<>> THEN 0 ELSE Last(pages))
  ELSE IF p = "wheel" THEN opLog[Len(opLog)].top
  ELSE 0

\* Variant of DefaultTimeout: 0 switches the limit off in the library.
NoDefaultTimeout == 0

\* context.set_default_timeout(5000): the limit, in ms, of every call on a
\* page of the context that is given no timeout of its own.
DefaultTimeout == 5000

\* elem.click(timeout=5000)
ClickTimeout == 5000

\* The calls whose time limit the script fixes.
TimedPoints == {"goto", "load_main", "load_frame", "settle", "act", "nav"}

\* The time limit, in ms, of the call at p: its timeout argument, the length
\* of the settle delay, or the context's default for a fill, which has no
\* timeout argument.  0: no limit applies to the call.
Limit(p) ==
  IF p \notin TimedPoints THEN 0
  ELSE CASE p \in {"goto", "nav"} -> 10000
         [] p \in {"load_main", "load_frame", "settle"} -> 3000
         [] p = "act" -> IF scenario.steps[idx] = "fill"
                         THEN DefaultTimeout ELSE ClickTimeout

\* The scripts run side by side: each is a process of its own that runs
\* asyncio.run(run_test()) once.
Runs == 1..NRuns

\* The two runs of one script that are compared.
Twins == {1, 2}

\* A run before asyncio.run: its position, its locals, whether its context
\* has an open page, whether an exception is propagating, the calls it has
\* issued, and what it has read of the browser's state: the number of frames
\* of the page and, at each context.pages[-1], whether there was a page.
TwinIdle ==
  [pc |-> "idle", idx |-> 0, waiting |-> FALSE, nframes |-> 0,
   pw |-> "None", browser |-> "None", context |-> "None", open |-> FALSE,
   failed |-> FALSE, ops |-> <<>>, seen |-> <<>>]

\* The handles a run holds in its locals pw, browser and context.
Kinds == {"pw", "browser", "context"}

\* Variant of Program that opens a second context for the step.
ProgramNewContextPerStep ==
  <<"start", "launch", "new_context", "new_page", "goto", "new_context",
    "act", "expect">> \o TeardownOrder

\* The awaited calls of a script in source order, with one step and one
\* assertion.
Program ==
  <<"start", "launch", "new_context", "new_page", "goto", "act", "expect">>
  \o TeardownOrder

\* Index of the first statement of the finally block.
FinallyAt == Len(Program) - Len(TeardownOrder) + 1

\* The local a call at p assigns, or tests and releases.
KindOf(p) ==
  CASE p \in {"start", "stop_pw"} -> "pw"
    [] p \in {"launch", "close_browser"} -> "browser"
    [] p \in {"new_context", "close_context"} -> "context"

\* pw = None; browser = None; context = None
NotStarted ==
  [at |-> 1, h |-> [k \in Kinds |-> 0], err |-> FALSE, failed |-> FALSE,
   status |-> "Idle"]

\* The frames of the page: 1 is the main document, the others are nested.
Frames == 1..MaxFrames

\* No element located, no action made.
NoElem == [frame |-> 0, index |-> 0, seen |-> 0]

NoAct ==
  [i |-> 0, op |-> "none", out |-> "none", searched |-> {}, frame |-> 0,
   first |-> 0, here |-> 0, match |-> 0, of |-> 0, node |-> 0, now |-> 0,
   seen |-> 0, changed |-> FALSE]

\* A script of locate-and-act steps before its first step: the frame its
\* locators name (1: frame = context.pages[-1], the main document; another: a
\* literal frame_locator path) and the action of each step.
NotLocated(path, kinds) ==
  [i |-> 1, pc |-> "locate", waiting |-> FALSE, path |-> path,
   kinds |-> kinds, elem |-> NoElem, last |-> NoAct]

----------------------------------------------------------------------------
Init ==
  /\ scenario \in Scenarios
  /\ state = "Idle"
  /\ pc = "idle"
  /\ idx = 0
  /\ waiting = FALSE
  /\ pw = "None"
  /\ browser = "None"
  /\ context = "None"
  /\ page = 0
  /\ frame = 0
  /\ pages = <<>>
  /\ created = 0
  /\ nframes = 0
  /\ inflight = {}
  /\ opLog = <<>>
  /\ app = <<>>
  /\ raised = <<>>
  /\ runs = [r \in Runs |-> NotStarted]
  /\ spawned = [k \in Kinds |-> 0]
  /\ alive = {}
  /\ made = {}
  /\ touched = {}
  /\ dom = [matches |-> [f \in Frames |-> 1], gen |-> 0]
  /\ loc = NotLocated(1, [i \in 1..MaxSteps |-> "click"])
  /\ twin = [r \in Twins |-> TwinIdle]
  /\ fed = <<>>

\* asyncio.run(run_test()): the coroutine starts with its locals set to None.
Start ==
  /\ pc = "idle"
  /\ state' = "Running"
  /\ pc' = "start"
  /\ UNCHANGED <<app, scenario, idx, waiting, pw, browser, context, page, frame,
                 pages, created, nframes, inflight, opLog, raised>>
  /\ UNCHANGED runvars
  /\ UNCHANGED stepvars
  /\ UNCHANGED twinvars

\* await <call>: the call is issued and run_test suspends until it completes.
\* In the finally block a release is issued only for a handle that is set.
Call ==
  /\ pc \in CallPoints
  /\ ~waiting
  /\ pc \in TeardownPoints => Handle(pc) # "None"
  /\ opLog' = Append(opLog, [phase |-> PhaseOf(pc), n |-> idx,
                             op |-> OpName(pc), page |-> Target(pc),
                             top |-> TopAt(pc), limit |-> Limit(pc),
                             out |-> "pending"])
  /\ inflight' = inflight \cup {Len(opLog) + 1}
  /\ waiting' = TRUE
  /\ UNCHANGED <<app, scenario, state, pc, idx, pw, browser, context, page, frame,
                 pages, created, nframes, raised>>
  /\ UNCHANGED runvars
  /\ UNCHANGED stepvars
  /\ UNCHANGED twinvars

\* Variant of Resume for a call that was started but not awaited.
ResumeNoAwait(k) == inflight

\* The awaited call is over: it leaves the set of calls in flight.
Resume(k) == inflight \ {k}

\* A call on a page that has been closed can only raise.
Outcomes ==
  IF opLog[Len(opLog)].page # 0 /\ ~InSeq(opLog[Len(opLog)].page, pages)
  THEN {"err"} ELSE {"ok", "err"}

\* The calls that act on the application: fill or click, wheel, navigation.
Effectful == {"act", "wheel", "nav"}

\* What the application has received once the call at pc completed with out: a
\* call that returned was carried out whole; one that raised on an open page
\* was carried out in part or not at all.
AppAfter(out) ==
  IF pc \notin Effectful THEN {app}
  ELSE IF out = "ok"
       THEN {Append(app, [n |-> idx, op |-> OpName(pc), whole |-> TRUE])}
  ELSE IF InSeq(opLog[Len(opLog)].page, pages)
       THEN {app, Append(app, [n |-> idx, op |-> OpName(pc), whole |-> FALSE])}
  ELSE {app}

Done(out) ==
  /\ opLog' = [opLog EXCEPT ![Len(opLog)].out = out]
  /\ app' \in AppAfter(out)
  /\ inflight' = Resume(Len(opLog))
  /\ waiting' = FALSE

\* Control passes to the next statement when the call returned, or when it
\* raised inside a try whose handler passes.
Ret(out) ==
  /\ waiting
  /\ out \in Outcomes
  /\ out = "ok" \/ Caught(pc)
  /\ Done(out)

\* An exception: its type, where it was raised, and whose text it carries.
Exc(type, msg) ==
  [type |-> type, at |-> pc, phase |-> PhaseOf(pc), n |-> idx, msg |-> msg]

\* Variant of AssertionFailure whose except clause lets the failure pass.
AssertionFailureSwallowed ==
  IF scenario.wrapped THEN <<>> ELSE <<Exc("AssertionError", "expect")>>

\* What a failed visibility assertion raises: the library's AssertionError,
\* whose text names the locator, and in a script that wraps its assertion the
\* AssertionError of the except clause, whose text is the script's own and
\* which is raised in its place (the first stays as its context).
AssertionFailure ==
  IF scenario.wrapped
  THEN <<Exc("AssertionError", "expect"), Exc("AssertionError", "script")>>
  ELSE <<Exc("AssertionError", "expect")>>

\* An awaited call raises and no handler of the try body catches it.  A failed
\* visibility assertion raises AssertionError; a wrapped one is caught and
\* re-raised with the script's own message.
Raises ==
  /\ pc \in CallPoints
  /\ waiting
  /\ ~Caught(pc)
  /\ Done("err")
  /\ \/ /\ pc # "expect"
        /\ raised' = Append(raised, Exc("Error", "library"))
     \/ /\ pc = "expect"
        /\ raised' = Append(raised, Exc("Error", "library"))
     \/ /\ pc = "expect"
        /\ InSeq(opLog[Len(opLog)].page, pages)
        /\ raised' = raised \o AssertionFailure
  /\ pc' = Handler(pc)
  /\ UNCHANGED <<scenario, state, idx, pw, browser, context, page, frame,
                 pages, created, nframes>>
  /\ UNCHANGED runvars
  /\ UNCHANGED stepvars
  /\ UNCHANGED twinvars

----------------------------------------------------------------------------
\* Session setup.

\* pw = await async_api.async_playwright().start()
DriverStarted ==
  /\ pc = "start"
  /\ \E out \in {"ok", "err"} : Ret(out)
  /\ pw' = "open"
  /\ pc' = "launch"
  /\ UNCHANGED <<scenario, state, idx, browser, context, page, frame, pages,
                 created, nframes, raised>>
  /\ UNCHANGED runvars
  /\ UNCHANGED stepvars
  /\ UNCHANGED twinvars

\* browser = await pw.chromium.launch(...)
BrowserLaunched ==
  /\ pc = "launch"
  /\ \E out \in {"ok", "err"} : Ret(out)
  /\ browser' = "open"
  /\ pc' = "new_context"
  /\ UNCHANGED <<scenario, state, idx, pw, context, page, frame, pages,
                 created, nframes, raised>>
  /\ UNCHANGED runvars
  /\ UNCHANGED stepvars
  /\ UNCHANGED twinvars

\* context = await browser.new_context(); context.set_default_timeout(5000)
ContextCreated ==
  /\ pc = "new_context"
  /\ \E out \in {"ok", "err"} : Ret(out)
  /\ context' = "open"
  /\ pc' = "new_page"
  /\ UNCHANGED <<scenario, state, idx, pw, browser, page, frame, pages,
                 created, nframes, raised>>
  /\ UNCHANGED runvars
  /\ UNCHANGED stepvars
  /\ UNCHANGED twinvars

\* page = await context.new_page()
PageCreated ==
  /\ pc = "new_page"
  /\ \E out \in {"ok", "err"} : Ret(out)
  /\ page' = created + 1
  /\ pages' = Append(pages, created + 1)
  /\ created' = created + 1
  /\ pc' = "goto"
  /\ UNCHANGED <<scenario, state, idx, pw, browser, context, frame, nframes,
                 raised>>
  /\ UNCHANGED runvars
  /\ UNCHANGED stepvars
  /\ UNCHANGED twinvars

\* await page.goto("http://localhost:5173", wait_until="commit", timeout=10000)
Navigated ==
  /\ pc = "goto"
  /\ \E out \in {"ok", "err"} : Ret(out)
  /\ pc' = "load_main"
  /\ UNCHANGED <<scenario, state, idx, pw, browser, context, page, frame,
                 pages, created, nframes, raised>>
  /\ UNCHANGED runvars
  /\ UNCHANGED stepvars
  /\ UNCHANGED twinvars

\* try: await page.wait_for_load_state(...) except async_api.Error: pass
\* and then the loop header: for frame in page.frames
MainLoaded ==
  /\ pc = "load_main"
  /\ \E out \in {"ok", "err"} : Ret(out)
  /\ \E k \in 1..MaxFrames : nframes' = k
  /\ idx' = 1
  /\ pc' = "load_frame"
  /\ UNCHANGED <<scenario, state, pw, browser, context, page, frame, pages,
                 created, raised>>
  /\ UNCHANGED runvars
  /\ UNCHANGED stepvars
  /\ UNCHANGED twinvars

\* One iteration of the loop over the frames present at startup.
FrameLoaded ==
  /\ pc = "load_frame"
  /\ \E out \in {"ok", "err"} : Ret(out)
  /\ IF idx < nframes
     THEN /\ idx' = idx + 1
          /\ pc' = pc
          /\ nframes' = nframes
     ELSE /\ idx' = 1
          /\ pc' = EntryPc(1)
          /\ nframes' = 0
  /\ UNCHANGED <<scenario, state, pw, browser, context, page, frame, pages,
                 created, raised>>
  /\ UNCHANGED runvars
  /\ UNCHANGED stepvars
  /\ UNCHANGED twinvars

----------------------------------------------------------------------------
\* Steps.

\* frame = context.pages[-1]; elem = frame.locator(...).nth(0)
\* Not awaited.  An empty page list raises IndexError.
Resolve ==
  /\ pc = "resolve"
  /\ IF pages = <<>>
     THEN /\ raised' = Append(raised, Exc("IndexError", "library"))
          /\ pc' = Handler(pc)
          /\ frame' = frame
     ELSE /\ frame' = Last(pages)
          /\ pc' = "settle"
          /\ raised' = raised
  /\ UNCHANGED <<app, scenario, state, idx, waiting, pw, browser, context, page,
                 pages, created, nframes, inflight, opLog>>
  /\ UNCHANGED runvars
  /\ UNCHANGED stepvars
  /\ UNCHANGED twinvars

\* await page.wait_for_timeout(3000)
Settled ==
  /\ pc = "settle"
  /\ \E out \in {"ok", "err"} : Ret(out)
  /\ pc' = "act"
  /\ UNCHANGED <<scenario, state, idx, pw, browser, context, page, frame,
                 pages, created, nframes, raised>>
  /\ UNCHANGED runvars
  /\ UNCHANGED stepvars
  /\ UNCHANGED twinvars

\* await elem.fill(value)  or  await elem.click(timeout=5000)
Acted ==
  /\ pc = "act"
  /\ \E out \in {"ok", "err"} : Ret(out)
  /\ idx' = idx + 1
  /\ pc' = EntryPc(idx + 1)
  /\ UNCHANGED <<scenario, state, pw, browser, context, page, frame, pages,
                 created, nframes, raised>>
  /\ UNCHANGED runvars
  /\ UNCHANGED stepvars
  /\ UNCHANGED twinvars

\* await page.evaluate('() => window.innerHeight'): the argument of the wheel
Evaluated ==
  /\ pc = "evaluate"
  /\ \E out \in {"ok", "err"} : Ret(out)
  /\ pc' = "wheel"
  /\ UNCHANGED <<scenario, state, idx, pw, browser, context, page, frame,
                 pages, created, nframes, raised>>
  /\ UNCHANGED runvars
  /\ UNCHANGED stepvars
  /\ UNCHANGED twinvars

\* await page.mouse.wheel(0, ...)
Wheeled ==
  /\ pc = "wheel"
  /\ \E out \in {"ok", "err"} : Ret(out)
  /\ idx' = idx + 1
  /\ pc' = EntryPc(idx + 1)
  /\ UNCHANGED <<scenario, state, pw, browser, context, page, frame, pages,
                 created, nframes, raised>>
  /\ UNCHANGED runvars
  /\ UNCHANGED stepvars
  /\ UNCHANGED twinvars

\* await page.goto('http://localhost:5173', timeout=10000)
MidNavigated ==
  /\ pc = "nav"
  /\ \E out \in {"ok", "err"} : Ret(out)
  /\ pc' = "sleep3"
  /\ UNCHANGED <<scenario, state, idx, pw, browser, context, page, frame,
                 pages, created, nframes, raised>>
  /\ UNCHANGED runvars
  /\ UNCHANGED stepvars
  /\ UNCHANGED twinvars

\* await asyncio.sleep(3)
Slept3 ==
  /\ pc = "sleep3"
  /\ idx' = idx + 1
  /\ pc' = EntryPc(idx + 1)
  /\ UNCHANGED <<app, scenario, state, waiting, pw, browser, context, page, frame,
                 pages, created, nframes, inflight, opLog, raised>>
  /\ UNCHANGED runvars
  /\ UNCHANGED stepvars
  /\ UNCHANGED twinvars

----------------------------------------------------------------------------
\* Terminal assertions.

\* frame = context.pages[-1], once, before the first assertion
ResolveAssert ==
  /\ pc = "resolve_assert"
  /\ IF pages = <<>>
     THEN /\ raised' = Append(raised, Exc("IndexError", "library"))
          /\ pc' = Handler(pc)
          /\ frame' = frame
          /\ idx' = idx
     ELSE /\ frame' = Last(pages)
          /\ idx' = 1
          /\ pc' = "expect"
          /\ raised' = raised
  /\ UNCHANGED <<app, scenario, state, waiting, pw, browser, context, page, pages,
                 created, nframes, inflight, opLog>>
  /\ UNCHANGED runvars
  /\ UNCHANGED stepvars
  /\ UNCHANGED twinvars

\* await expect(frame.locator(...).first).to_be_visible(timeout=...) returned
Expected ==
  /\ pc = "expect"
  /\ \E out \in {"ok", "err"} : Ret(out)
  /\ IF idx < scenario.nAsserts
     THEN /\ idx' = idx + 1
          /\ pc' = pc
     ELSE /\ idx' = idx
          /\ pc' = "sleep5"
  /\ UNCHANGED <<scenario, state, pw, browser, context, page, frame, pages,
                 created, nframes, raised>>
  /\ UNCHANGED runvars
  /\ UNCHANGED stepvars
  /\ UNCHANGED twinvars

\* Variant of Slept5 for a sleep that has no end.
Slept5Unbounded ==
  /\ pc = "sleep5"
  /\ pc' = pc
  /\ UNCHANGED <<app, scenario, state, idx, waiting, pw, browser, context, page,
                 frame, pages, created, nframes, inflight, opLog, raised>>
  /\ UNCHANGED runvars
  /\ UNCHANGED stepvars
  /\ UNCHANGED twinvars

\* await asyncio.sleep(5), then the try body is left normally
Slept5 ==
  /\ pc = "sleep5"
  /\ pc' = TeardownOrder[1]
  /\ UNCHANGED <<app, scenario, state, idx, waiting, pw, browser, context, page,
                 frame, pages, created, nframes, inflight, opLog, raised>>
  /\ UNCHANGED runvars
  /\ UNCHANGED stepvars
  /\ UNCHANGED twinvars

----------------------------------------------------------------------------
\* finally:

\* if context: / if browser: / if pw:  with the local still None
SkipRelease ==
  /\ pc \in TeardownPoints
  /\ ~waiting
  /\ Handle(pc) = "None"
  /\ pc' = AfterTeardown(pc)
  /\ UNCHANGED <<app, scenario, state, idx, waiting, pw, browser, context, page,
                 frame, pages, created, nframes, inflight, opLog, raised>>
  /\ UNCHANGED runvars
  /\ UNCHANGED stepvars
  /\ UNCHANGED twinvars

\* await context.close() returned
ContextClosed ==
  /\ pc = "close_context"
  /\ \E out \in {"ok", "err"} : Ret(out)
  /\ context' = "closed"
  /\ pages' = <<>>
  /\ pc' = AfterTeardown(pc)
  /\ UNCHANGED <<scenario, state, idx, pw, browser, page, frame, created,
                 nframes, raised>>
  /\ UNCHANGED runvars
  /\ UNCHANGED stepvars
  /\ UNCHANGED twinvars

\* await browser.close() returned
BrowserClosed ==
  /\ pc = "close_browser"
  /\ \E out \in {"ok", "err"} : Ret(out)
  /\ browser' = "closed"
  /\ pc' = AfterTeardown(pc)
  /\ UNCHANGED <<scenario, state, idx, pw, context, page, frame, pages,
                 created, nframes, raised>>
  /\ UNCHANGED runvars
  /\ UNCHANGED stepvars
  /\ UNCHANGED twinvars

\* await pw.stop() returned
DriverStopped ==
  /\ pc = "stop_pw"
  /\ \E out \in {"ok", "err"} : Ret(out)
  /\ pw' = "closed"
  /\ pc' = AfterTeardown(pc)
  /\ UNCHANGED <<scenario, state, idx, browser, context, page, frame, pages,
                 created, nframes, raised>>
  /\ UNCHANGED runvars
  /\ UNCHANGED stepvars
  /\ UNCHANGED twinvars

\* Variant of Outcome with a third status for a run that got part of the way.
OutcomePartial ==
  IF raised = <<>> THEN "Passed"
  ELSE IF \E i \in 1..Len(opLog) :
            opLog[i].phase = "step" /\ opLog[i].out = "ok" THEN "Partial"
  ELSE "Failed"

\* What asyncio.run(run_test()) ends with: a normal return, or the exception
\* that propagated out of run_test.
Outcome == IF raised = <<>> THEN "Passed" ELSE "Failed"

Finish ==
  /\ pc = "exit"
  /\ state' = Outcome
  /\ pc' = "done"
  /\ UNCHANGED <<app, scenario, idx, waiting, pw, browser, context, page, frame,
                 pages, created, nframes, inflight, opLog, raised>>
  /\ UNCHANGED runvars
  /\ UNCHANGED stepvars
  /\ UNCHANGED twinvars

----------------------------------------------------------------------------
\* The browser, while run_test is suspended between the first navigation and
\* the finally block: the application may open a page in the context or close
\* one.

Suspended == waiting \/ pc \in SleepPoints

InBodyPoints == {"goto", "load_main", "load_frame", "expect"}
                  \cup StepPoints \cup SleepPoints

InBody == pc \in InBodyPoints

PopupOpens ==
  /\ Suspended
  /\ InBody
  /\ pages # <<>>
  /\ created < MaxPages
  /\ pages' = Append(pages, created + 1)
  /\ created' = created + 1
  /\ UNCHANGED <<app, scenario, state, pc, idx, waiting, pw, browser, context,
                 page, frame, nframes, inflight, opLog, raised>>
  /\ UNCHANGED runvars
  /\ UNCHANGED stepvars
  /\ UNCHANGED twinvars

PageCloses ==
  /\ Suspended
  /\ InBody
  /\ \E i \in 1..Len(pages) : pages' = RemoveAt(pages, i)
  /\ UNCHANGED <<app, scenario, state, pc, idx, waiting, pw, browser, context,
                 page, frame, created, nframes, inflight, opLog, raised>>
  /\ UNCHANGED runvars
  /\ UNCHANGED stepvars
  /\ UNCHANGED twinvars

----------------------------------------------------------------------------
Next ==
  \/ Start
  \/ Call
  \/ Raises
  \/ DriverStarted
  \/ BrowserLaunched
  \/ ContextCreated
  \/ PageCreated
  \/ Navigated
  \/ MainLoaded
  \/ FrameLoaded
  \/ Resolve
  \/ Settled
  \/ Acted
  \/ Evaluated
  \/ Wheeled
  \/ MidNavigated
  \/ Slept3
  \/ ResolveAssert
  \/ Expected
  \/ Slept5
  \/ SkipRelease
  \/ ContextClosed
  \/ BrowserClosed
  \/ DriverStopped
  \/ Finish
  \/ PopupOpens
  \/ PageCloses

Spec == Init /\ [][Next]_vars

----------------------------------------------------------------------------
\* Several scripts run side by side.  No script starts another and there is no
\* runner under src: each script is a process of its own with its own event
\* loop, so the runs interleave call by call.  A call is taken here as one
\* step, from its issue to its return or raise.

Here(r) == Program[runs[r].at]

InProgram(r) == runs[r].status = "Running" /\ runs[r].at <= Len(Program)

\* Variant of FreshId: every launch attaches to the same running instance.
SharedId(kind) == 1

\* start(), launch() and new_context() each start a new driver, a new browser
\* process, a new context: one that no earlier call returned.
FreshId(kind) == spawned[kind] + 1

\* Variant of Scope: the scripts are tasks of one loop, gathered, and the
\* exception of one ends them all.
ScopeAll(r) == Runs

\* The runs an exception raised in run r unwinds: it propagates up the
\* coroutine run_test of r and out of its asyncio.run.
Scope(r) == {r}

\* A call of the try body of run r raises: control goes to its finally block.
Unwound(r) ==
  [q \in Runs |->
     IF q = r
     THEN [runs[q] EXCEPT !.err = TRUE, !.failed = TRUE, !.at = FinallyAt]
     ELSE IF q \in Scope(r)
     THEN [runs[q] EXCEPT !.failed = TRUE, !.at = FinallyAt]
     ELSE runs[q]]

\* asyncio.run(run_test()) of script r
RunStart(r) ==
  /\ runs[r].status = "Idle"
  /\ runs' = [runs EXCEPT ![r].status = "Running"]
  /\ UNCHANGED <<spawned, alive, made, touched>>
  /\ UNCHANGED scriptvars
  /\ UNCHANGED stepvars
  /\ UNCHANGED twinvars

\* pw = await ...start(); browser = await ...launch(); context = await
\* browser.new_context(): the call returns a new handle, or raises.
RunAcquire(r) ==
  /\ InProgram(r)
  /\ Here(r) \in {"start", "launch", "new_context"}
  /\ \/ LET k == KindOf(Here(r))
            id == FreshId(k)
        IN /\ runs' = [runs EXCEPT ![r].h[k] = id, ![r].at = @ + 1]
           /\ spawned' = [spawned EXCEPT ![k] = @ + 1]
           /\ alive' = alive \cup {<<k, id>>}
           /\ made' = made \cup {[run |-> r, kind |-> k, id |-> id]}
     \/ /\ runs' = Unwound(r)
        /\ UNCHANGED <<spawned, alive, made>>
  /\ UNCHANGED touched
  /\ UNCHANGED scriptvars
  /\ UNCHANGED stepvars
  /\ UNCHANGED twinvars

\* A call on the page: new_page, goto, the action of a step, the assertion.
\* It goes to the browser and the context its run holds, and returns or
\* raises (an error, a timeout, a failed assertion).
RunCall(r) ==
  /\ InProgram(r)
  /\ Here(r) \in {"new_page", "goto", "act", "expect"}
  /\ touched' = touched \cup
       {[run |-> r, kind |-> k, id |-> runs[r].h[k],
         live |-> <<k, runs[r].h[k]>> \in alive] : k \in {"browser", "context"}}
  /\ \/ runs' = [runs EXCEPT ![r].at = @ + 1]
     \/ runs' = Unwound(r)
  /\ UNCHANGED <<spawned, alive, made>>
  /\ UNCHANGED scriptvars
  /\ UNCHANGED stepvars
  /\ UNCHANGED twinvars

\* if context: await context.close(), and the same for browser and pw: a
\* local that is None is passed over; a release that raises leaves the finally
\* block.
RunRelease(r) ==
  /\ InProgram(r)
  /\ Here(r) \in TeardownPoints
  /\ LET k == KindOf(Here(r))
     IN \/ /\ runs[r].h[k] = 0
           /\ runs' = [runs EXCEPT ![r].at = @ + 1]
           /\ UNCHANGED alive
        \/ /\ runs[r].h[k] # 0
           /\ runs' = [runs EXCEPT ![r].at = @ + 1]
           /\ alive' = alive \ {<<k, runs[r].h[k]>>}
        \/ /\ runs[r].h[k] # 0
           /\ runs' = [runs EXCEPT ![r].err = TRUE, ![r].failed = TRUE,
                                   ![r].at = Len(Program) + 1]
           /\ UNCHANGED alive
  /\ UNCHANGED <<spawned, made, touched>>
  /\ UNCHANGED scriptvars
  /\ UNCHANGED stepvars
  /\ UNCHANGED twinvars

\* asyncio.run returns, or raises what run_test raised.
RunFinish(r) ==
  /\ runs[r].status = "Running"
  /\ runs[r].at = Len(Program) + 1
  /\ runs' = [runs EXCEPT ![r].status =
                IF runs[r].failed THEN "Failed" ELSE "Passed"]
  /\ UNCHANGED <<spawned, alive, made, touched>>
  /\ UNCHANGED scriptvars
  /\ UNCHANGED stepvars
  /\ UNCHANGED twinvars

InitPar ==
  /\ Init
  /\ scenario = [steps |-> <<"click">>, nAsserts |-> 1, wrapped |-> FALSE]

NextPar ==
  \/ \E r \in Runs : RunStart(r)
  \/ \E r \in Runs : RunAcquire(r)
  \/ \E r \in Runs : RunCall(r)
  \/ \E r \in Runs : RunRelease(r)
  \/ \E r \in Runs : RunFinish(r)

SpecPar == InitPar /\ [][NextPar]_vars

----------------------------------------------------------------------------
\* The locate-and-act steps against the document.  The document is the
\* environment: while a step is suspended in an await, elements the locator
\* matches appear and disappear in any frame, and the matched elements are
\* detached and attached again by a re-render.

MatchMaps == [Frames -> 0..MaxMatches]

\* Variant of Nth: .nth(1), the second match.
NthSecond == 2

\* .nth(0): the first match.
Nth == 1

\* Variant of Searched: the step looks through all the frames of the page.
SearchedAll(e) == Frames

\* The frames an action looks for its element in: the one frame the locator
\* was built on.
Searched(e) == {e.frame}

\* The first frame searched in which the locator has a match at its index.
FrameHit(e) ==
  LET hits == {f \in Searched(e) : dom.matches[f] >= e.index}
  IN IF hits = {} THEN 0 ELSE CHOOSE f \in hits : \A g \in hits : f <= g

\* The first frame of the page in which the locator matches anything.
FirstFrame ==
  LET any == {f \in Frames : dom.matches[f] > 0}
  IN IF any = {} THEN 0 ELSE CHOOSE f \in any : \A g \in any : f <= g

\* Variant of NodeActedOn: the element found when the locator was built.
NodeBoundAtLocate(e) == e.seen

\* The element an action acts on: locator() is not awaited, so it finds
\* nothing; the awaited action finds the element in the document as it is then.
NodeActedOn(e) == dom.gen

\* Variant of ClickSucceeds: the click is checked for an effect on the page.
ClickSucceedsIfChanged(changed) == changed

\* await elem.click(timeout=5000) returned: the script goes on to the next
\* statement, with no check of what the click did.
ClickSucceeds(changed) == TRUE

\* elem = frame.locator('xpath=...').nth(0): builds the locator, without a
\* call to the browser.
Locate ==
  /\ loc.pc = "locate"
  /\ loc' = [loc EXCEPT !.elem = [frame |-> loc.path, index |-> Nth,
                                   seen |-> dom.gen],
                        !.pc = "settle"]
  /\ UNCHANGED dom
  /\ UNCHANGED <<scriptvars, runvars, twinvars>>

\* await page.wait_for_timeout(3000), await elem.fill(...), await
\* elem.click(...): the call is issued.
Await ==
  /\ loc.pc \in {"settle", "act"}
  /\ ~loc.waiting
  /\ loc' = [loc EXCEPT !.waiting = TRUE]
  /\ UNCHANGED dom
  /\ UNCHANGED <<scriptvars, runvars, twinvars>>

\* The settle delay is over, or raised.
SettleOver ==
  /\ loc.pc = "settle"
  /\ loc.waiting
  /\ \E out \in {"ok", "err"} :
       loc' = [loc EXCEPT !.waiting = FALSE,
                          !.pc = IF out = "ok" THEN "act" ELSE "failed"]
  /\ UNCHANGED dom
  /\ UNCHANGED <<scriptvars, runvars, twinvars>>

\* What the action that completes now did, as a record.
ActRecord(out, f, changed) ==
  [i |-> loc.i, op |-> loc.kinds[loc.i], out |-> out,
   searched |-> Searched(loc.elem), frame |-> f, first |-> FirstFrame,
   here |-> dom.matches[loc.path],
   match |-> IF f = 0 THEN 0 ELSE loc.elem.index,
   of |-> IF f = 0 THEN 0 ELSE dom.matches[f],
   node |-> IF f = 0 THEN 0 ELSE NodeActedOn(loc.elem),
   now |-> dom.gen, seen |-> loc.elem.seen, changed |-> changed]

\* The fill or click completes: it returns after acting on the match at the
\* locator's index in the frame searched, with or without an effect on the
\* page; or it raises, which is all it can do when there is no such match.
ActOver ==
  /\ loc.pc = "act"
  /\ loc.waiting
  /\ \/ /\ FrameHit(loc.elem) # 0
        /\ \E changed \in BOOLEAN :
             /\ loc.kinds[loc.i] = "fill" => changed
             /\ loc' = [loc EXCEPT
                   !.waiting = FALSE,
                   !.last = ActRecord("ok", FrameHit(loc.elem), changed),
                   !.i = IF ClickSucceeds(changed) /\ loc.i < MaxSteps
                         THEN loc.i + 1 ELSE loc.i,
                   !.pc = IF ~ClickSucceeds(changed) THEN "failed"
                          ELSE IF loc.i < MaxSteps THEN "locate" ELSE "end"]
     \/ loc' = [loc EXCEPT !.waiting = FALSE,
                           !.last = ActRecord("err", 0, FALSE),
                           !.pc = "failed"]
  /\ UNCHANGED dom
  /\ UNCHANGED <<scriptvars, runvars, twinvars>>

\* The page changes what the locator matches.
DomMutates ==
  /\ loc.waiting
  /\ \E m \in MatchMaps \ {dom.matches} : dom' = [dom EXCEPT !.matches = m]
  /\ UNCHANGED loc
  /\ UNCHANGED <<scriptvars, runvars, twinvars>>

\* The page re-renders: the matched elements are detached and attached again.
Rerenders ==
  /\ loc.waiting
  /\ dom.gen < MaxRenders
  /\ dom' = [dom EXCEPT !.gen = @ + 1]
  /\ UNCHANGED loc
  /\ UNCHANGED <<scriptvars, runvars, twinvars>>

InitStep ==
  /\ scenario = [steps |-> <<"click">>, nAsserts |-> 1, wrapped |-> FALSE]
  /\ state = "Idle"
  /\ pc = "idle"
  /\ idx = 0
  /\ waiting = FALSE
  /\ pw = "None"
  /\ browser = "None"
  /\ context = "None"
  /\ page = 0
  /\ frame = 0
  /\ pages = <<>>
  /\ created = 0
  /\ nframes = 0
  /\ inflight = {}
  /\ opLog = <<>>
  /\ app = <<>>
  /\ raised = <<>>
  /\ runs = [r \in Runs |-> NotStarted]
  /\ spawned = [k \in Kinds |-> 0]
  /\ alive = {}
  /\ made = {}
  /\ touched = {}
  /\ \E m \in MatchMaps : dom = [matches |-> m, gen |-> 0]
  /\ \E path \in Frames : \E kinds \in [1..MaxSteps -> {"fill", "click"}] :
       loc = NotLocated(path, kinds)
  /\ twin = [r \in Twins |-> TwinIdle]
  /\ fed = <<>>

NextStep ==
  \/ Locate
  \/ Await
  \/ SettleOver
  \/ ActOver
  \/ DomMutates
  \/ Rerenders

SpecStep == InitStep /\ [][NextStep]_vars

----------------------------------------------------------------------------
\* Properties.

Ops == 1..Len(opLog)

Ended == pc = "done"

Calls(name) == {i \in Ops : opLog[i].op = name}

Returned(name) == \E i \in Calls(name) : opLog[i].out = "ok"

\* The exceptions raised by the try body, without those of the finally block.
BodyRaised == SelectSeq(raised, LAMBDA e : e.phase # "teardown")

\* The calls a step of each kind makes.
OpsOf(kind) ==
  CASE kind = "fill" -> {"settle", "fill"}
    [] kind = "click" -> {"settle", "click"}
    [] kind = "scroll" -> {"evaluate", "wheel"}
    [] kind = "goto" -> {"nav"}

\* C1: when the run has ended, each of the context, the browser and the driver
\* that was acquired has been released, by exactly one release call, whatever
\* the exit path.
C1_TeardownExactlyOnce ==
  Ended =>
    /\ context # "None" =>
         context = "closed" /\ Cardinality(Calls("close_context")) = 1
    /\ browser # "None" =>
         browser = "closed" /\ Cardinality(Calls("close_browser")) = 1
    /\ pw # "None" =>
         pw = "closed" /\ Cardinality(Calls("stop_pw")) = 1

\* C2: the calls of the steps are issued in the declared order, each step only
\* after all earlier steps, and once a call of step K has failed (or step K
\* raised while resolving its page) no call of a later step and no assertion
\* is issued: the run is in its finally block or over.
C2_StepsInOrderStopAtFailure ==
  /\ \A i \in Ops : opLog[i].phase = "step" =>
       /\ opLog[i].n \in 1..Len(scenario.steps)
       /\ opLog[i].op \in OpsOf(scenario.steps[opLog[i].n])
       /\ \A k \in 1..(opLog[i].n - 1) :
            \E j \in 1..(i - 1) : opLog[j].phase = "step" /\ opLog[j].n = k
       /\ \A j \in 1..(i - 1) :
            /\ opLog[j].phase # "assert"
            /\ opLog[j].phase = "step" =>
                 opLog[j].n <= opLog[i].n /\ opLog[j].out = "ok"
  /\ \A i \in Ops : opLog[i].phase = "assert" =>
       \A j \in 1..(i - 1) : opLog[j].phase = "step" => opLog[j].out = "ok"
  /\ \A k \in 1..Len(raised) : raised[k].phase = "step" =>
       /\ pc \in TeardownPoints \cup {"exit", "done"}
       /\ \A i \in Ops :
            /\ opLog[i].phase # "assert"
            /\ opLog[i].phase = "step" => opLog[i].n <= raised[k].n

C2_Witness ==
  /\ Ended
  /\ Len(scenario.steps) >= 2
  /\ \E i \in Ops :
       opLog[i].phase = "step" /\ opLog[i].n = 1 /\ opLog[i].out = "err"

\* C3: no release of the finally block raises, and the run never ends with an
\* acquired handle that a failed release left unreleased.
C3_CloseNeverRaises ==
  /\ \A k \in 1..Len(raised) : raised[k].phase # "teardown"
  /\ (Ended /\ \E i \in Ops : opLog[i].phase = "teardown" /\ opLog[i].out = "err")
       => \A h \in {context, browser, pw} : h \in {"None", "closed"}

\* C4: the reported result is the result of the try body: Passed exactly when
\* the body raised nothing, and otherwise Failed with the body's exception as
\* the one that is reported.
C4_TeardownNeverMasks ==
  Ended =>
    /\ state = "Passed" <=> BodyRaised = <<>>
    /\ BodyRaised # <<>> => Last(raised) = Last(BodyRaised)

\* C5: the driver is acquired before the browser and the browser before the
\* context, and a release is issued only after the release of every handle
\* acquired later has returned: context, then browser, then driver.
C5_ReverseOrderRelease ==
  \A j \in Ops :
    /\ opLog[j].op = "launch" =>
         \E i \in 1..(j - 1) : opLog[i].op = "start" /\ opLog[i].out = "ok"
    /\ opLog[j].op = "new_context" =>
         \E i \in 1..(j - 1) : opLog[i].op = "launch" /\ opLog[i].out = "ok"
    /\ (opLog[j].op = "close_browser" /\ Returned("new_context")) =>
         \E i \in 1..(j - 1) :
           opLog[i].op = "close_context" /\ opLog[i].out = "ok"
    /\ (opLog[j].op = "stop_pw" /\ Returned("launch")) =>
         \E i \in 1..(j - 1) :
           opLog[i].op = "close_browser" /\ opLog[i].out = "ok"

C5_Witness ==
  /\ Ended
  /\ context = "closed"
  /\ browser = "closed"
  /\ pw = "closed"

\* C6: at most one call is in flight, it is the call issued last, and every
\* call issued before it has completed.
C6_OneInFlight ==
  /\ Cardinality(inflight) <= 1
  /\ inflight \subseteq {Len(opLog)}
  /\ \A i \in 1..(Len(opLog) - 1) : opLog[i].out # "pending"

C6_Witness ==
  /\ pc = "act"
  /\ idx = 2
  /\ inflight = {Len(opLog)}
  /\ opLog[Len(opLog) - 1].out = "ok"

\* C7: the status moves Idle -> Running -> Passed or Failed only; a run that
\* has ended is Passed or Failed, and then neither the status nor the reported
\* exception changes again.
C7_StateMachine ==
  /\ [](state \in {"Idle", "Running", "Passed", "Failed"})
  /\ [](Ended <=> state \in {"Passed", "Failed"})
  /\ [][/\ state = "Idle" => state' \in {"Idle", "Running"}
        /\ state = "Running" => state' \in {"Running", "Passed", "Failed"}
        /\ state \in {"Passed", "Failed"} =>
             state' = state /\ raised' = raised]_vars

C7_Witness ==
  /\ state = "Failed"
  /\ \E i \in Ops : opLog[i].phase = "step" /\ opLog[i].out = "ok"

AssertsPassed ==
  Cardinality({i \in Calls("expect") : opLog[i].out = "ok"}) = scenario.nAsserts

\* C8: a run is Passed only if all its terminal assertions passed, and a run
\* that got as far as checking its assertions is Passed exactly when they all
\* passed.
C8_AssertionDecides ==
  Ended =>
    /\ state = "Passed" => AssertsPassed
    /\ Calls("expect") # {} => (state = "Passed" <=> AssertsPassed)

\* C9: every call of a step or of the assertions is made on the page that was
\* last in the context's page list when that step began.
C9_PageReResolved ==
  \A i \in Ops :
    opLog[i].phase \in {"step", "assert"} => opLog[i].page = opLog[i].top

\* The calls from the first navigation to the last assertion.
InScenario(i) ==
  /\ opLog[i].phase # "teardown"
  /\ opLog[i].op \notin {"start", "launch", "new_context", "new_page"}

\* C10 as stated: no call from the first navigation to the last assertion
\* fails without failing the run, and none is followed by a further call of
\* the scenario.
C10_NoOpSkipped ==
  \A i \in Ops : (InScenario(i) /\ opLog[i].out = "err") =>
    /\ raised # <<>>
    /\ \A j \in (i + 1)..Len(opLog) : opLog[j].phase = "teardown"

\* C10 amended: the same for every call other than the load-state waits of
\* setup; a load-state wait that fails raises nothing out of its try.
C10_NoOpSkippedButLoadWaits ==
  /\ \A i \in Ops :
       (/\ InScenario(i)
        /\ opLog[i].out = "err"
        /\ opLog[i].op \notin {"load_main", "load_frame"}) =>
         /\ raised # <<>>
         /\ \A j \in (i + 1)..Len(opLog) : opLog[j].phase = "teardown"
         /\ Ended => state = "Failed"
  /\ \A k \in 1..Len(raised) : raised[k].at \notin {"load_main", "load_frame"}

C10_Witness ==
  /\ Ended
  /\ state = "Failed"
  /\ \E i \in Ops : opLog[i].op = "load_frame" /\ opLog[i].out = "err"
  /\ \E i \in Ops : opLog[i].phase = "step" /\ opLog[i].out = "err"

\* The declared steps of each kind.
Declared(kind) == {k \in 1..Len(scenario.steps) : scenario.steps[k] = kind}

\* C11: every call of a declared step is issued at most once in a run, a call
\* that failed is never issued again, and an action is attempted as often as
\* the script declares it and no more: a repetition is a duplicate step.
C11_NoRetry ==
  /\ \A i \in Ops : \A j \in Ops :
       (/\ i < j
        /\ opLog[i].phase = "step"
        /\ opLog[j].phase = "step"
        /\ opLog[i].n = opLog[j].n) =>
         opLog[i].op # opLog[j].op /\ opLog[i].out = "ok"
  /\ \A kind \in {"fill", "click"} :
       Cardinality(Calls(kind)) <= Cardinality(Declared(kind))

C11_Witness ==
  /\ Ended
  /\ scenario.steps = <<"click", "click">>
  /\ \E i \in Calls("click") : \E j \in Calls("click") :
       i < j /\ opLog[i].out = "ok" /\ opLog[j].out = "err"

\* The actions the application received whole.
Whole == SelectSeq(app, LAMBDA e : e.whole)

\* C12: when step K fails the application has received the actions of steps
\* 1..K-1, in order, and at most a part of the action of step K; from the
\* failure on, through the finally block and the end of the run, it receives
\* nothing more: no action is undone, repeated or compensated.
C12_NoRollback ==
  /\ [](\A i \in 1..Len(app) :
         /\ app[i].n = i
         /\ app[i].op \in OpsOf(scenario.steps[i])
         /\ ~app[i].whole => i = Len(app) /\ raised # <<>>)
  /\ [](\A k \in 1..Len(raised) : raised[k].phase = "step" =>
         /\ Len(Whole) = raised[k].n - 1
         /\ Len(app) <= raised[k].n)
  /\ [][raised # <<>> => app' = app]_vars

C12_Witness ==
  /\ Ended
  /\ context = "closed"
  /\ Len(app) = 2
  /\ app[1].whole
  /\ ~app[2].whole

\* C17: when the driver or the browser process cannot be started the run is
\* over: the error propagates, no context or page is opened, no step and no
\* assertion is issued, only releases follow, and the run ends Failed.
C17_LaunchFailureFatal ==
  \A i \in Ops : (opLog[i].op \in {"start", "launch"} /\ opLog[i].out = "err") =>
    /\ raised # <<>>
    /\ raised[1].at = opLog[i].op
    /\ raised[1].type = "Error"
    /\ \A j \in Ops : opLog[j].phase \notin {"step", "assert"}
    /\ \A j \in (i + 1)..Len(opLog) : opLog[j].phase = "teardown"
    /\ context = "None" /\ page = 0 /\ app = <<>>
    /\ Ended => state = "Failed"

C17_Witness ==
  /\ Ended
  /\ state = "Failed"
  /\ pw = "closed"
  /\ \E i \in Calls("launch") : opLog[i].out = "err"

\* C18: every fill and every click is issued with a time limit, at most the
\* action timeout, after a settle delay that is bounded too, so the step
\* cannot wait without end; an action that fails (its element did not become
\* actionable in time) fails the run: the error propagates from that step, no
\* further step or assertion is issued and the run ends Failed.
C18_ActionTimesOut ==
  \A i \in Ops : opLog[i].op \in {"fill", "click"} =>
    /\ opLog[i].limit \in 1..ClickTimeout
    /\ opLog[i - 1].op = "settle" /\ opLog[i - 1].limit \in 1..3000
    /\ opLog[i].out = "err" =>
         /\ raised # <<>>
         /\ raised[1].at = "act" /\ raised[1].n = opLog[i].n
         /\ \A j \in (i + 1)..Len(opLog) : opLog[j].phase = "teardown"
         /\ Ended => state = "Failed"

C18_Witness ==
  /\ Ended
  /\ state = "Failed"
  /\ \E i \in Calls("fill") : opLog[i].out = "err" /\ opLog[i].limit = 5000

\* C19 as stated: whenever a visibility assertion failed, the exception the run
\* reports is the one whose text names the predicate.
C19_ReasonNamesPredicate ==
  \A k \in 1..Len(raised) :
    raised[k].msg = "expect" => Last(raised).msg = "expect"

\* C19 amended: a failed visibility assertion fails the run, and the error that
\* names the predicate is the first of the exception chain; it is the reported
\* exception only in a script with a bare assertion whose finally block raised
\* nothing.  A script that wraps its assertion raises its own message next, in
\* place of it, and nothing else carries that message.
C19_PredicateInChain ==
  /\ \A i \in Calls("expect") : opLog[i].out = "err" =>
       /\ raised # <<>>
       /\ raised[1].at = "expect" /\ raised[1].n = opLog[i].n
       /\ Ended => state = "Failed"
  /\ \A k \in 1..Len(raised) : raised[k].msg = "expect" =>
       /\ k = 1
       /\ raised[k].type = "AssertionError"
       /\ scenario.wrapped =>
            /\ Len(raised) >= 2
            /\ raised[2].msg = "script" /\ raised[2].at = "expect"
       /\ \A j \in (k + 1)..Len(raised) :
            raised[j].msg = "script" \/ raised[j].phase = "teardown"
       /\ Last(raised).msg = "expect" <=> (~scenario.wrapped /\ Len(raised) = 1)
  /\ \A k \in 1..Len(raised) : raised[k].msg = "script" =>
       k = 2 /\ scenario.wrapped /\ raised[1].msg = "expect"

C19_Witness ==
  /\ Ended
  /\ state = "Failed"
  /\ scenario.wrapped
  /\ Len(raised) = 2
  /\ raised[1].msg = "expect"
  /\ raised[2].msg = "script"

\* C14: a run fails only through an error (a timeout among them) of a call of
\* its own, and the step in which a call of one run raises changes nothing of
\* any other run: not its position, its handles or its result.
C14_TimeoutIsolated ==
  /\ [](\A q \in Runs :
         /\ runs[q].failed => runs[q].err
         /\ runs[q].status = "Passed" => ~runs[q].err
         /\ runs[q].status = "Failed" => runs[q].err)
  /\ [][\A r \in Runs : (runs'[r].err /\ ~runs[r].err) =>
          \A q \in Runs \ {r} : runs'[q] = runs[q]]_vars

C14_Witness ==
  \E r \in Runs : \E q \in Runs \ {r} :
    /\ runs[r].err
    /\ runs[r].at = FinallyAt
    /\ runs[r].h["context"] # 0
    /\ runs[q].status = "Running"
    /\ runs[q].at = FinallyAt - 1
    /\ ~runs[q].failed

\* C15: no driver, browser process or context is held by two runs, every call
\* of a run goes to the browser and the context that this run started, and no
\* browser or context receives calls of two runs.
C15_OwnBrowserAndContext ==
  /\ \A r \in Runs : \A q \in Runs \ {r} : \A k \in Kinds :
       runs[r].h[k] # 0 => runs[r].h[k] # runs[q].h[k]
  /\ \A t \in touched :
       /\ [run |-> t.run, kind |-> t.kind, id |-> t.id] \in made
       /\ \A u \in touched :
            (u.kind = t.kind /\ u.id = t.id) => u.run = t.run

C15_Witness ==
  \E t \in touched : \E u \in touched :
    /\ t.run # u.run
    /\ t.kind = "context" /\ u.kind = "context"
    /\ <<"context", t.id>> \in alive
    /\ <<"context", u.id>> \in alive

\* C16: a run starts at most one browser and one context, exactly one of each
\* once it has made a call on a page; a call never goes to a browser or a
\* context that has been closed, and none that one run started is ever held or
\* used by another run, one that starts after the first has ended included.
C16_OneSessionPerRun ==
  /\ \A r \in Runs : \A k \in {"browser", "context"} :
       /\ Cardinality({m \in made : m.run = r /\ m.kind = k}) <= 1
       /\ (\E t \in touched : t.run = r) =>
            Cardinality({m \in made : m.run = r /\ m.kind = k}) = 1
       /\ Cardinality({m \in made : m.run = r /\ m.kind = k
                                      /\ <<k, m.id>> \in alive}) <= 1
  /\ \A t \in touched : t.live
  /\ \A m \in made : \A r \in Runs :
       runs[r].h[m.kind] = m.id => r = m.run

C16_Witness ==
  \E r \in Runs : \E q \in Runs \ {r} :
    /\ runs[r].status = "Passed"
    /\ <<"context", runs[r].h["context"]>> \notin alive
    /\ runs[q].status = "Running"
    /\ runs[q].at = FinallyAt - 1
    /\ runs[q].h["context"] > runs[r].h["context"]
    /\ \E t \in touched : t.run = q

\* C23: every fill, every click and every scroll is issued right after a settle
\* delay of its own step that has elapsed.
C23_SettleBeforeEveryAction ==
  \A i \in Ops : opLog[i].op \in {"fill", "click", "wheel"} =>
    /\ i > 1
    /\ opLog[i - 1].op = "settle"
    /\ opLog[i - 1].n = opLog[i].n
    /\ opLog[i - 1].out = "ok"

\* The run failed while acquiring the driver, the browser or the context.
SetupFailed ==
  raised # <<>> /\ raised[1].at \in {"start", "launch", "new_context"}

\* The release call of each handle.
ReleaseOf(h) ==
  CASE h = "context" -> "close_context"
    [] h = "browser" -> "close_browser"
    [] h = "pw" -> "stop_pw"

\* C27: when setup failed part-way, a release is only ever issued for a handle
\* that was acquired, in reverse order of acquisition, and when the run has
\* ended every handle that was acquired has been released, by one release call.
C27_PartialSetupReleased ==
  SetupFailed =>
    /\ Calls("close_context") = {}
    /\ Calls("close_browser") # {} => Returned("launch")
    /\ Calls("stop_pw") # {} => Returned("start")
    /\ \A i \in Calls("stop_pw") : \A j \in Calls("close_browser") : j < i
    /\ Ended =>
         /\ context = "None"
         /\ browser \in {"None", "closed"}
         /\ pw \in {"None", "closed"}
         /\ \A h \in {"browser", "pw"} :
              Cardinality(Calls(ReleaseOf(h))) <= 1

\* The calls that operate the browser: navigation, load-state waits, settle
\* delays, actions, scrolls and assertion probes.
BrowserOp(i) == opLog[i].phase \in {"step", "assert"} \/ InScenario(i)

\* C28: a call that operates the browser is issued only after the driver, the
\* browser, the context and the first page have been created, and never after
\* a release of the finally block was issued; while the finally block runs,
\* the only call in flight is a release.
C28_OpsInsideSession ==
  /\ \A i \in Ops : BrowserOp(i) =>
       /\ \A name \in {"start", "launch", "new_context", "new_page"} :
            \E j \in 1..(i - 1) : opLog[j].op = name /\ opLog[j].out = "ok"
       /\ \A j \in 1..(i - 1) : opLog[j].phase # "teardown"
  /\ pc \in TeardownPoints \cup {"exit", "done"} =>
       \A i \in inflight : opLog[i].phase = "teardown"

C28_Witness ==
  /\ Ended
  /\ context = "closed"
  /\ Calls("expect") # {}
  /\ Calls("click") # {}
  /\ Calls("wheel") # {}

\* C29: a locate-and-act step reads the last page of the context once, when it
\* begins; the page it read stays its page through the settle delay and the
\* action, whatever pages open meanwhile, and its fill or click is issued on
\* that page.  The next step reads the list again.
C29_ActsOnPageOfStepStart ==
  /\ [][(pc = "resolve" /\ pc' = "settle") => frame' = Last(pages)]_vars
  /\ [][(pc \in {"settle", "act"} /\ pc' \in {"settle", "act"}) =>
          frame' = frame]_vars
  /\ []((pc = "act" /\ waiting) =>
         /\ opLog[Len(opLog)].op \in {"fill", "click"}
         /\ opLog[Len(opLog)].page = frame)

C29_Witness ==
  /\ pc = "act"
  /\ waiting
  /\ frame = 1
  /\ pages = <<1, 2>>
  /\ opLog[Len(opLog)].page = 1

\* C30: every settle delay, every scroll (the evaluate of its argument and the
\* wheel) and every mid-scenario navigation is issued on the page created at
\* session start, whichever page is last in the context; a settle delay whose
\* page is closed can only raise, and a step whose settle delay raised never
\* issues its fill or click.
C30_SettleOnInitialPage ==
  /\ [](\A i \in Ops : opLog[i].op \in {"settle", "evaluate", "wheel", "nav"} =>
         opLog[i].page = 1 /\ page = 1)
  /\ [](\A i \in Calls("settle") : opLog[i].out = "err" =>
         \A j \in Ops :
           opLog[j].op \in {"fill", "click"} => opLog[j].n < opLog[i].n)
  /\ [][(pc = "settle" /\ page # 0 /\ ~InSeq(page, pages)) =>
          pc' \in {"settle", Handler("settle")}]_vars

C30_Witness ==
  /\ pc = "close_context"
  /\ ~waiting
  /\ raised # <<>>
  /\ raised[1].at = "settle"
  /\ pages = <<2>>
  /\ frame = 2

C22_FramesScanned ==
  loc.last.op # "none" =>
    /\ loc.last.first # 0 => loc.last.first \in loc.last.searched
    /\ loc.last.out = "ok" => loc.last.frame = loc.last.first
    /\ loc.last.first = 0 => loc.last.searched = Frames

\* C22 amended: the action looks for its element in one frame only, the one
\* the script's locator names; it acts there, and it fails when the locator
\* has no match there, whatever the other frames hold.
C22_OnlyNamedFrame ==
  loc.last.op # "none" =>
    /\ loc.last.searched = {loc.path}
    /\ loc.last.out = "ok" => loc.last.frame = loc.path /\ loc.last.here >= 1
    /\ loc.last.here = 0 => loc.last.out = "err"

C22_Witness ==
  /\ loc.last.out = "err"
  /\ loc.last.here = 0
  /\ loc.last.first # 0
  /\ loc.pc = "failed"

\* C25: once a click has returned the script is at its next step, or at its end
\* after the last one, whether or not the click changed the page.
C25_ClickNotVerified ==
  (loc.last.op = "click" /\ loc.last.out = "ok") =>
    \/ loc.pc = "end" /\ loc.last.i = MaxSteps
    \/ loc.i = loc.last.i + 1

C25_Witness ==
  /\ loc.last.op = "click"
  /\ loc.last.out = "ok"
  /\ ~loc.last.changed
  /\ loc.i = loc.last.i + 1
  /\ loc.pc = "act"
  /\ loc.waiting

C31_AssertionsInOrder ==
  /\ [](\A i \in Calls("expect") :
         /\ opLog[i].n \in 1..scenario.nAsserts
         /\ \A k \in 1..(opLog[i].n - 1) :
              \E j \in 1..(i - 1) :
                /\ opLog[j].op = "expect"
                /\ opLog[j].n = k
                /\ opLog[j].out = "ok"
         /\ \A j \in Calls("expect") :
              /\ opLog[j].page = opLog[i].page
              /\ j < i => opLog[j].n < opLog[i].n /\ opLog[j].out = "ok"
              /\ j # i => opLog[j].n # opLog[i].n)
  /\ [](state = "Passed" => AssertsPassed)
  /\ [][(pc = "expect" /\ pc' = "expect") => frame' = frame]_vars

C31_Witness ==
  /\ pc = "expect"
  /\ waiting
  /\ idx = 2
  /\ frame = 1
  /\ pages = <<1, 2>>
  /\ opLog[Len(opLog)].page = 1

\* C32: an initial navigation that fails or times out raises out of the try
\* body before any step: the run goes to the finally block, makes no further
\* call of the scenario and ends Failed with the context closed.  A load-state
\* wait that fails or times out raises nothing, and control goes on to the
\* next frame's wait and from the last one to the first step.  The waits are
\* all made during setup, one per frame counted when the loop started.
C32_SetupFailures ==
  /\ [](\A i \in Calls("goto") : opLog[i].out = "err" =>
         /\ raised # <<>>
         /\ raised[1].at = "goto"
         /\ \A j \in (i + 1)..Len(opLog) : opLog[j].phase = "teardown"
         /\ Ended => state = "Failed" /\ Calls("close_context") # {})
  /\ [](\A k \in 1..Len(raised) : raised[k].at \notin {"load_main", "load_frame"})
  /\ [](\A i \in Calls("load_frame") :
         /\ \A j \in 1..i : opLog[j].phase = "setup"
         /\ opLog[i].n \in 1..MaxFrames)
  /\ [](Cardinality(Calls("load_main")) <= 1
        /\ Cardinality(Calls("load_frame")) <= MaxFrames)
  /\ [][(pc = "load_main" /\ pc' # pc) => pc' = "load_frame"]_vars
  /\ [][(pc = "load_frame" /\ pc' # pc) => pc' = EntryPc(1)]_vars

C32_Witness ==
  /\ Ended
  /\ \E i \in Calls("load_main") : opLog[i].out = "err"
  /\ \E i \in Calls("load_frame") : opLog[i].out = "err" /\ opLog[i].n = 1
  /\ \E i \in Calls("load_frame") : opLog[i].n = 2
  /\ \E i \in Ops : opLog[i].phase = "step" /\ opLog[i].n = 1 /\ opLog[i].out = "ok"

----------------------------------------------------------------------------
\* Termination.  run_test is one coroutine on the event loop of asyncio.run:
\* nothing else is scheduled on it, so it is resumed whenever the call it
\* awaits is over, and a statement that awaits nothing is executed as soon
\* as control reaches it.  The browser opening or closing a page is not a
\* step of the coroutine and is not required to happen.
Advance ==
  \/ Start
  \/ Call
  \/ Raises
  \/ DriverStarted
  \/ BrowserLaunched
  \/ ContextCreated
  \/ PageCreated
  \/ Navigated
  \/ MainLoaded
  \/ FrameLoaded
  \/ Resolve
  \/ Settled
  \/ Acted
  \/ Evaluated
  \/ Wheeled
  \/ MidNavigated
  \/ Slept3
  \/ ResolveAssert
  \/ Expected
  \/ Slept5
  \/ SkipRelease
  \/ ContextClosed
  \/ BrowserClosed
  \/ DriverStopped
  \/ Finish

\* The opening of a page changes which page a later call is made on and not
\* which statement runs next; the closing of a page can leave the context
\* without a page, where context.pages[-1] raises.  The runs checked for
\* termination are those of the coroutine with pages closing under it.
NextFair ==
  \/ Advance
  \/ PageCloses

FairSpec == Init /\ [][NextFair]_vars /\ WF_vars(Advance)

\* C33: as long as every awaited call comes to an end, by returning or by
\* raising, the run reaches the end of run_test with the result Passed or
\* Failed, the finally block having been run to its last statement or left by
\* an exception of a release; no call of the script is issued twice, and every
\* delay, load-state wait, navigation, fill and click of the step sequence
\* carries a time limit.
C33_Terminates ==
  /\ <>(Ended /\ state \in {"Passed", "Failed"})
  /\ [](Ended =>
         \A p \in TeardownPoints :
           \/ Handle(p) = "None"
           \/ Calls(p) # {}
           \/ \E k \in 1..Len(raised) : raised[k].phase = "teardown")
  /\ [](\A i \in Ops : \A j \in Ops :
         (/\ i < j
          /\ opLog[i].phase = opLog[j].phase
          /\ opLog[i].n = opLog[j].n) => opLog[i].op # opLog[j].op)
  /\ [](\A i \in Ops :
         opLog[i].op \in {"goto", "load_main", "load_frame", "settle", "fill",
                          "click", "nav"} => opLog[i].limit > 0)
  /\ [][pc = "done" => pc' = "done"]_vars

C33_Witness ==
  /\ Ended
  /\ state = "Failed"
  /\ Len(scenario.steps) = MaxSteps
  /\ pages = <<>>
  /\ \E k \in 1..Len(raised) : raised[k].type = "IndexError"
  /\ \E i \in Calls("load_frame") : opLog[i].out = "err"
  /\ Calls("stop_pw") # {}

----------------------------------------------------------------------------
\* Two runs of the same script side by side, each in a process and a browser
\* of its own, that receive the same outcome for their k-th call, for every
\* k.  What a run reads of the browser's state without a call -- the length
\* of page.frames, and whether context.pages has a last element -- is its
\* own.

\* The calls made on a page; on a closed page they can only raise.
TwinOnPage == {"goto", "load_main", "load_frame", "expect"} \cup StepPoints

TwinOutcomes(t) ==
  IF t.pc \in TwinOnPage /\ ~t.open THEN {"err"} ELSE {"ok", "err"}

TwinHandle(t, p) ==
  CASE p = "close_context" -> t.context
    [] p = "close_browser" -> t.browser
    [] p = "stop_pw" -> t.pw

TwinOpName(t) == IF t.pc = "act" THEN scenario.steps[t.idx] ELSE t.pc

\* Variant of FramesLeft for a loop that reads page.frames at every iteration.
FramesLeftLive(t, k) == k

\* for frame in page.frames: the list is read once, when the loop starts;
\* k is the number of frames the page has now.
FramesLeft(t, k) == t.nframes

\* The exception of a call or of a statement leaves the try body, or the
\* finally block.
TwinRaise(t) ==
  [t EXCEPT !.waiting = FALSE, !.failed = TRUE, !.pc = Handler(t.pc)]

\* The call the run awaits returned, or raised inside try/except-pass: the
\* statements up to the next call of run_test.
TwinReturn(t, k) ==
  LET u == [t EXCEPT !.waiting = FALSE]
      step == [u EXCEPT !.idx = t.idx + 1, !.pc = EntryPc(t.idx + 1)]
  IN CASE t.pc = "start" -> [u EXCEPT !.pw = "open", !.pc = "launch"]
       [] t.pc = "launch" -> [u EXCEPT !.browser = "open", !.pc = "new_context"]
       [] t.pc = "new_context" -> [u EXCEPT !.context = "open", !.pc = "new_page"]
       [] t.pc = "new_page" -> [u EXCEPT !.open = TRUE, !.pc = "goto"]
       [] t.pc = "goto" -> [u EXCEPT !.pc = "load_main"]
       [] t.pc = "load_main" ->
            [u EXCEPT !.nframes = k, !.idx = 1, !.pc = "load_frame",
                      !.seen = Append(t.seen, k)]
       [] t.pc = "load_frame" ->
            IF t.idx < FramesLeft(t, k)
            THEN [u EXCEPT !.idx = t.idx + 1]
            ELSE [u EXCEPT !.idx = 1, !.pc = EntryPc(1), !.nframes = 0]
       [] t.pc = "settle" -> [u EXCEPT !.pc = "act"]
       [] t.pc = "act" -> step
       [] t.pc = "evaluate" -> [u EXCEPT !.pc = "wheel"]
       [] t.pc = "wheel" -> step
       [] t.pc = "nav" -> [u EXCEPT !.pc = "sleep3"]
       [] t.pc = "expect" ->
            IF t.idx < scenario.nAsserts
            THEN [u EXCEPT !.idx = t.idx + 1]
            ELSE [u EXCEPT !.pc = "sleep5"]
       [] t.pc = "close_context" ->
            [u EXCEPT !.context = "closed", !.open = FALSE,
                      !.pc = AfterTeardown(t.pc)]
       [] t.pc = "close_browser" ->
            [u EXCEPT !.browser = "closed", !.pc = AfterTeardown(t.pc)]
       [] t.pc = "stop_pw" ->
            [u EXCEPT !.pw = "closed", !.pc = AfterTeardown(t.pc)]

TwinComplete(t, out, k) ==
  IF out = "ok" \/ Caught(t.pc) THEN TwinReturn(t, k) ELSE TwinRaise(t)

\* A statement of run_test that awaits nothing.
TwinSilent(t) ==
  CASE t.pc = "idle" -> [t EXCEPT !.pc = "start"]
    [] t.pc \in {"resolve", "resolve_assert"} ->
         IF ~t.open
         THEN [TwinRaise(t) EXCEPT !.seen = Append(t.seen, "none")]
         ELSE [t EXCEPT !.seen = Append(t.seen, "page"),
                        !.idx = IF t.pc = "resolve" THEN t.idx ELSE 1,
                        !.pc = IF t.pc = "resolve" THEN "settle" ELSE "expect"]
    [] t.pc = "sleep3" ->
         [t EXCEPT !.idx = t.idx + 1, !.pc = EntryPc(t.idx + 1)]
    [] t.pc = "sleep5" -> [t EXCEPT !.pc = TeardownOrder[1]]
    [] t.pc \in TeardownPoints -> [t EXCEPT !.pc = AfterTeardown(t.pc)]
    [] t.pc = "exit" -> [t EXCEPT !.pc = "done"]

\* await <call> in run r
TwinCall(r) ==
  /\ twin[r].pc \in CallPoints
  /\ ~twin[r].waiting
  /\ twin[r].pc \in TeardownPoints => TwinHandle(twin[r], twin[r].pc) # "None"
  /\ twin' = [twin EXCEPT ![r].waiting = TRUE,
                          ![r].ops = Append(twin[r].ops, TwinOpName(twin[r]))]
  /\ UNCHANGED fed
  /\ UNCHANGED <<scriptvars, runvars, stepvars>>

\* Run r executes a statement that is not a call; a release in the finally
\* block is passed over when its local is still None.
TwinStep(r) ==
  /\ ~twin[r].waiting
  /\ \/ twin[r].pc \in {"idle", "resolve", "resolve_assert", "sleep3",
                         "sleep5", "exit"}
     \/ /\ twin[r].pc \in TeardownPoints
        /\ TwinHandle(twin[r], twin[r].pc) = "None"
  /\ twin' = [twin EXCEPT ![r] = TwinSilent(twin[r])]
  /\ UNCHANGED fed
  /\ UNCHANGED <<scriptvars, runvars, stepvars>>

\* Both runs are suspended in their call number Len(fed) + 1, and the two
\* browsers answer it alike.
TwinFeed ==
  /\ \A r \in Twins : twin[r].waiting
  /\ \E out \in {"ok", "err"} :
       /\ \A r \in Twins : out \in TwinOutcomes(twin[r])
       /\ fed' = Append(fed, out)
       /\ \E ks \in [Twins -> 1..MaxFrames] :
            twin' = [r \in Twins |-> TwinComplete(twin[r], out, ks[r])]
  /\ UNCHANGED <<scriptvars, runvars, stepvars>>

\* The application closes the page of run r while the run is suspended.
TwinPageCloses(r) ==
  /\ twin[r].waiting \/ twin[r].pc \in SleepPoints
  /\ twin[r].pc \in InBodyPoints
  /\ twin[r].open
  /\ twin' = [twin EXCEPT ![r].open = FALSE]
  /\ UNCHANGED fed
  /\ UNCHANGED <<scriptvars, runvars, stepvars>>

NextTwin ==
  \/ \E r \in Twins : TwinCall(r)
  \/ \E r \in Twins : TwinStep(r)
  \/ TwinFeed
  \/ \E r \in Twins : TwinPageCloses(r)

SpecTwin == Init /\ [][NextTwin]_vars

TwinEnded == \A r \in Twins : twin[r].pc = "done"

TwinResult(r) == IF twin[r].failed THEN "Failed" ELSE "Passed"

\* C34 as stated: two runs of one script that got the same outcomes, call by
\* call, have issued the same calls in the same order and end alike.
C34_Deterministic ==
  TwinEnded =>
    /\ twin[1].ops = twin[2].ops
    /\ TwinResult(1) = TwinResult(2)

\* C34 amended: two runs of one script that got the same outcomes, call by
\* call, and that read the same of their browser's state -- the same number
\* of frames when the startup loop began, and a page or none at the same
\* reads of context.pages[-1] -- have issued the same calls in the same
\* order, at every call they are both suspended in and at the end, and end
\* with the same result.
C34_DeterministicGivenReads ==
  /\ ((\A r \in Twins : twin[r].waiting) /\ twin[1].seen = twin[2].seen) =>
       twin[1].ops = twin[2].ops
  /\ (TwinEnded /\ twin[1].seen = twin[2].seen) =>
       /\ twin[1].ops = twin[2].ops
       /\ TwinResult(1) = TwinResult(2)

C34_Witness ==
  /\ TwinEnded
  /\ twin[1].seen = twin[2].seen
  /\ twin[1].seen = <<MaxFrames, "page", "none">>
  /\ \E i \in 1..Len(fed) : fed[i] = "err" /\ twin[1].ops[i] = "load_frame"
  /\ TwinResult(1) = "Failed"
  /\ Len(twin[1].ops) = Len(fed)

====
